---- MODULE Spec2Model ----
(***************************************************************************)
(* State machine of the App component of src/App.tsx: five pieces of React *)
(* state, the two asynchronous handlers (handleImageUpload, handleSubmit), *)
(* handleReset, the prompt's onChange, and the promises in flight          *)
(* (fileToBase64 reads, editImageWithGemini calls).                        *)
(*                                                                         *)
(* Two specifications share the handlers:                                  *)
(*   HandlerSpec  every handler may be invoked in every state; only the    *)
(*                conditions written in the handlers guard them;           *)
(*   Spec         the handlers as the rendered view lets a user reach      *)
(*                them: the file input exists only while originalImage is  *)
(*                null, the form only while it is non-null, and the        *)
(*                disabled attributes of the form's controls apply.        *)
(* Every behaviour of Spec is a behaviour of HandlerSpec.                  *)
(*                                                                         *)
(* An optional value (T | null) is a sequence: null is <<>>, a value v is  *)
(* <<v>>.  A MIME type is a sequence of characters, so that startsWith is  *)
(* computed; base64 data, prompts and messages are strings.                *)
(***************************************************************************)
EXTENDS Naturals, Sequences, FiniteSets, TLC

VARIABLES originalImage, editedImage, prompt, isLoading, error,
          reads, calls, ev,
          validUploads, readsStarted, submitsAccepted, callsIssued

state == <<originalImage, editedImage, prompt, isLoading, error>>
counters == <<validUploads, readsStarted, submitsAccepted, callsIssued>>
vars == <<originalImage, editedImage, prompt, isLoading, error,
          reads, calls, ev,
          validUploads, readsStarted, submitsAccepted, callsIssued>>

\* ---------------------------------------------------------------- bounds
\* Valid-image uploads accepted in one run.
MaxUploads == 3
\* Submits accepted in one run.
MaxSubmits == 2

\* ---------------------------------------------------------------- values
null == <<>>
Some(v) == <<v>>

InvalidFileMsg == "Please upload a valid image file (PNG, JPG, WEBP, etc.)."
ReadFailedMsg == "Failed to process image file."
MissingInputMsg == "Please provide an image and a prompt."
UnknownErrorMsg == "An unknown error occurred."
DataUrlPrefix == "data:image/png;base64,"

ImageSlash == <<"i", "m", "a", "g", "e", "/">>
TypePng == <<"i", "m", "a", "g", "e", "/", "p", "n", "g">>
TypeJpeg == <<"i", "m", "a", "g", "e", "/", "j", "p", "e", "g">>
TypeText == <<"t", "e", "x", "t", "/", "p", "l", "a", "i", "n">>
TypeBare == <<"i", "m", "a", "g", "e">>
TypeEmpty == <<>>

\* The files a user can pick: the accept attribute is a hint, any type can come.
ValidFiles ==
    { [type |-> TypePng, b64 |-> "UE5H"], [type |-> TypeJpeg, b64 |-> "SlBH"] }
InvalidFiles ==
    { [type |-> TypeText, b64 |-> "VFhU"], [type |-> TypeBare, b64 |-> "QkFS"],
      [type |-> TypeEmpty, b64 |-> "RU1Q"] }
Files == ValidFiles \cup InvalidFiles
\* event.target.files is empty (the file dialog was cancelled).
NoFile == [type |-> TypeEmpty, b64 |-> "", absent |-> TRUE]

\* The values typed into the prompt input.
Prompts == { "", "retro", "blur" }
\* The base64 strings the remote service resolves with.
Results == { "QUJD", "REVG" }
\* The values a rejected promise carries: an Error with a message (possibly
\* empty), or a value that is no Error (its own message field is not read).
Thrown ==
    { [isError |-> TRUE, message |-> "quota exceeded"],
      [isError |-> TRUE, message |-> ""],
      [isError |-> FALSE, message |-> "not an Error"] }

\* ---------------------------------------------------------------- helpers
\* String.prototype.startsWith on character sequences.
startsWith(s, p) == Len(s) >= Len(p) /\ SubSeq(s, 1, Len(p)) = p

\* A pending promise leaves the set of promises in flight when it settles.
RemoveAt(s, i) == SubSeq(s, 1, i - 1) \o SubSeq(s, i + 1, Len(s))

\* What the promise of fileToBase64(file) resolves with.
fileToBase64(file) == [base64Data |-> file.b64, mimeType |-> file.type]

\* ---------------------------------------------------------------- initial state
Init ==
    /\ originalImage = null
    /\ editedImage = null
    /\ prompt = ""
    /\ isLoading = FALSE
    /\ error = null
    /\ reads = <<>>
    /\ calls = <<>>
    /\ ev = [kind |-> "init"]
    /\ validUploads = 0
    /\ readsStarted = 0
    /\ submitsAccepted = 0
    /\ callsIssued = 0

\* The types of lines 37-41, and of the promises pending at lines 55 and 76.
TypeOK ==
    /\ originalImage \in {null} \cup
           { Some([data |-> f.b64, mimeType |-> f.type]) : f \in ValidFiles }
    /\ editedImage \in {null} \cup { Some(DataUrlPrefix \o r) : r \in Results }
    /\ prompt \in Prompts
    /\ isLoading \in BOOLEAN
    /\ error \in {null} \cup { Some(m) : m \in
           {InvalidFileMsg, ReadFailedMsg, MissingInputMsg, UnknownErrorMsg}
           \cup { t.message : t \in Thrown } }
    /\ \A i \in 1..Len(reads) : reads[i] \in ValidFiles
    /\ \A i \in 1..Len(calls) : calls[i].prompt \in Prompts \ {""}

\* ---------------------------------------------------------------- handleImageUpload
\* Lines 46-47: no file in the event, nothing happens.
UploadNoFile ==
    /\ ev' = [kind |-> "uploadNone"]
    /\ UNCHANGED <<state, reads, calls, counters>>

\* Lines 48-51: the type check fails.
UploadInvalid(file) ==
    /\ error' = Some(InvalidFileMsg)
    /\ ev' = [kind |-> "uploadInvalid", file |-> file]
    /\ UNCHANGED <<originalImage, editedImage, prompt, isLoading,
                   reads, calls, counters>>

\* Mutant of UploadValid: error and editedImage are not cleared at the upload.
UploadValidWithoutClearing(file) ==
    /\ validUploads < MaxUploads
    /\ reads' = Append(reads, file)
    /\ validUploads' = validUploads + 1
    /\ readsStarted' = readsStarted + 1
    /\ ev' = [kind |-> "uploadValid", file |-> file]
    /\ UNCHANGED <<originalImage, editedImage, error, prompt, isLoading, calls,
                   submitsAccepted, callsIssued>>

\* Lines 52-55, up to the await: the read is started.
UploadValid(file) ==
    /\ validUploads < MaxUploads
    /\ error' = null
    /\ editedImage' = null
    /\ reads' = Append(reads, file)
    /\ validUploads' = validUploads + 1
    /\ readsStarted' = readsStarted + 1
    /\ ev' = [kind |-> "uploadValid", file |-> file]
    /\ UNCHANGED <<originalImage, prompt, isLoading, calls,
                   submitsAccepted, callsIssued>>

\* Mutant of handleImageUpload: the type is compared with "image", no slash.
handleImageUploadPrefixWithoutSlash(file) ==
    IF file = NoFile
    THEN UploadNoFile
    ELSE IF ~startsWith(file.type, <<"i", "m", "a", "g", "e">>)
         THEN UploadInvalid(file)
         ELSE UploadValid(file)

handleImageUpload(file) ==
    IF file = NoFile
    THEN UploadNoFile
    ELSE IF ~startsWith(file.type, ImageSlash)
         THEN UploadInvalid(file)
         ELSE UploadValid(file)

\* Lines 55-56: the i-th pending read, in the order the reads were started,
\* resolves.
ReadResolved(i) ==
    LET r == fileToBase64(reads[i]) IN
    /\ originalImage' = Some([data |-> r.base64Data, mimeType |-> r.mimeType])
    /\ reads' = RemoveAt(reads, i)
    /\ ev' = [kind |-> "readResolved", file |-> reads[i], index |-> i]
    /\ UNCHANGED <<editedImage, prompt, isLoading, error, calls, counters>>

\* Lines 57-60: the i-th pending read rejects.
ReadRejected(i) ==
    /\ error' = Some(ReadFailedMsg)
    /\ reads' = RemoveAt(reads, i)
    /\ ev' = [kind |-> "readRejected", file |-> reads[i], index |-> i]
    /\ UNCHANGED <<originalImage, editedImage, prompt, isLoading, calls, counters>>

\* ---------------------------------------------------------------- handleSubmit
\* Lines 66-69.
SubmitMissingInput ==
    /\ error' = Some(MissingInputMsg)
    /\ ev' = [kind |-> "submitRefused"]
    /\ UNCHANGED <<originalImage, editedImage, prompt, isLoading,
                   reads, calls, counters>>

\* Lines 71-76, up to the await: the remote call is issued.
SubmitAccepted ==
    LET call == [data |-> originalImage[1].data,
                 mimeType |-> originalImage[1].mimeType,
                 prompt |-> prompt] IN
    /\ submitsAccepted < MaxSubmits
    /\ error' = null
    /\ isLoading' = TRUE
    /\ editedImage' = null
    /\ calls' = Append(calls, call)
    /\ submitsAccepted' = submitsAccepted + 1
    /\ callsIssued' = callsIssued + 1
    /\ ev' = [kind |-> "submitAccepted", call |-> call]
    /\ UNCHANGED <<originalImage, prompt, reads, validUploads, readsStarted>>

\* Mutant of handleSubmit: the guard tests the image only, not the prompt.
handleSubmitWithoutPromptTest ==
    IF originalImage = null
    THEN SubmitMissingInput
    ELSE SubmitAccepted

handleSubmit ==
    IF prompt = "" \/ originalImage = null
    THEN SubmitMissingInput
    ELSE SubmitAccepted

\* Mutant of EditResolved: the data URL takes the original's MIME type.
EditResolvedWithOriginalType(i, r) ==
    /\ editedImage' = Some((IF calls[i].mimeType = TypeJpeg
                            THEN "data:image/jpeg;base64,"
                            ELSE "data:image/png;base64,") \o r)
    /\ isLoading' = FALSE
    /\ calls' = RemoveAt(calls, i)
    /\ ev' = [kind |-> "editResolved", call |-> calls[i], result |-> r]
    /\ UNCHANGED <<originalImage, prompt, error, reads, counters>>

\* Lines 76-77 and 80-82: the i-th pending call resolves with r.
EditResolved(i, r) ==
    /\ editedImage' = Some(DataUrlPrefix \o r)
    /\ isLoading' = FALSE
    /\ calls' = RemoveAt(calls, i)
    /\ ev' = [kind |-> "editResolved", call |-> calls[i], result |-> r]
    /\ UNCHANGED <<originalImage, prompt, error, reads, counters>>

\* Mutant of EditRejected: the failed call is issued again.
EditRejectedRetrying(i, t) ==
    /\ error' = Some(IF t.isError THEN t.message ELSE UnknownErrorMsg)
    /\ isLoading' = FALSE
    /\ calls' = Append(RemoveAt(calls, i), calls[i])
    /\ callsIssued' = callsIssued + 1
    /\ ev' = [kind |-> "editRejected", call |-> calls[i], thrown |-> t]
    /\ UNCHANGED <<originalImage, editedImage, prompt, reads,
                   validUploads, readsStarted, submitsAccepted>>

\* Mutant of EditRejected: the message is read without the instanceof test.
EditRejectedWithoutInstanceof(i, t) ==
    /\ error' = Some(t.message)
    /\ isLoading' = FALSE
    /\ calls' = RemoveAt(calls, i)
    /\ ev' = [kind |-> "editRejected", call |-> calls[i], thrown |-> t]
    /\ UNCHANGED <<originalImage, editedImage, prompt, reads, counters>>

\* Lines 78-82: the i-th pending call rejects with t.
EditRejected(i, t) ==
    /\ error' = Some(IF t.isError THEN t.message ELSE UnknownErrorMsg)
    /\ isLoading' = FALSE
    /\ calls' = RemoveAt(calls, i)
    /\ ev' = [kind |-> "editRejected", call |-> calls[i], thrown |-> t]
    /\ UNCHANGED <<originalImage, editedImage, prompt, reads, counters>>

\* ---------------------------------------------------------------- handleReset, setPrompt
\* Mutant of handleReset: the prompt is not cleared.
handleResetKeepingPrompt ==
    /\ originalImage' = null
    /\ editedImage' = null
    /\ error' = null
    /\ isLoading' = FALSE
    /\ ev' = [kind |-> "reset"]
    /\ UNCHANGED <<prompt, reads, calls, counters>>

\* Mutant of handleReset: the edited image is not cleared.
handleResetKeepingEdit ==
    /\ originalImage' = null
    /\ prompt' = ""
    /\ error' = null
    /\ isLoading' = FALSE
    /\ ev' = [kind |-> "reset"]
    /\ UNCHANGED <<editedImage, reads, calls, counters>>

\* Lines 85-94 (fileInputRef.current is null whenever the Reset button exists).
handleReset ==
    /\ originalImage' = null
    /\ editedImage' = null
    /\ prompt' = ""
    /\ error' = null
    /\ isLoading' = FALSE
    /\ ev' = [kind |-> "reset"]
    /\ UNCHANGED <<reads, calls, counters>>

\* Line 145.
setPrompt(p) ==
    /\ prompt' = p
    /\ ev' = [kind |-> "promptChanged"]
    /\ UNCHANGED <<originalImage, editedImage, isLoading, error,
                   reads, calls, counters>>

\* ---------------------------------------------------------------- the rendered view
\* Mutant of FileInputRendered: the file input is always rendered.
FileInputAlwaysRendered == TRUE
\* Line 106: the file input is rendered only without an original image.
FileInputRendered == originalImage = null
\* Line 139: the form (prompt, Generate, Reset) only with one.
FormRendered == originalImage # null
\* Mutant of PromptDisabled: the prompt input is never disabled.
PromptNeverDisabled == FALSE
\* Line 148.
PromptDisabled == isLoading
\* Mutant of GenerateDisabled: the button ignores isLoading.
GenerateDisabledIgnoringLoading == prompt = ""
\* Line 153.
GenerateDisabled == isLoading \/ prompt = ""
\* Mutant of ResetDisabled: the button is never disabled.
ResetNeverDisabled == FALSE
\* Line 162.
ResetDisabled == isLoading
\* Lines 125, 134: {error && ...}: null and the empty string render nothing.
ErrorRendered == error # null /\ error[1] # ""

SelectFile(file) == FileInputRendered /\ handleImageUpload(file)
TypePrompt(p) == FormRendered /\ ~PromptDisabled /\ p # prompt /\ setPrompt(p)
\* A click on Generate, or Enter in the prompt input (implicit submission,
\* which a disabled default button blocks).
SubmitForm == FormRendered /\ ~GenerateDisabled /\ handleSubmit
ClickReset == FormRendered /\ ~ResetDisabled /\ handleReset

\* ---------------------------------------------------------------- specifications
ReadSettles ==
    \E i \in 1..Len(reads) : ReadResolved(i) \/ ReadRejected(i)
EditSettles ==
    \E i \in 1..Len(calls) :
        \/ \E r \in Results : EditResolved(i, r)
        \/ \E t \in Thrown : EditRejected(i, t)

Next ==
    \/ \E file \in Files \cup {NoFile} : SelectFile(file)
    \/ \E p \in Prompts : TypePrompt(p)
    \/ SubmitForm
    \/ ClickReset
    \/ ReadSettles
    \/ EditSettles

Spec == Init /\ [][Next]_vars

\* The remote call settles: the hypothesis of the liveness claims.
LiveSpec == Spec /\ WF_vars(EditSettles)

HandlerNext ==
    \/ \E file \in Files \cup {NoFile} : handleImageUpload(file)
    \/ \E p \in Prompts : setPrompt(p)
    \/ handleSubmit
    \/ handleReset
    \/ ReadSettles
    \/ EditSettles

HandlerSpec == Init /\ [][HandlerNext]_vars

\* ---------------------------------------------------------------- claims
EditSettled == ev.kind \in {"editResolved", "editRejected"}
UploadOfFile == ev.kind \in {"uploadInvalid", "uploadValid"}

\* C1: under the rendered view at most one editImageWithGemini call is in
\* flight, and one is in flight exactly while isLoading is true: no submit is
\* accepted between the submit that set isLoading and its settlement.
C1_AtMostOneEditInFlight ==
    /\ Len(calls) <= 1
    /\ isLoading <=> Len(calls) = 1
\* A call is pending and something else (a late file read) has happened since.
C1_Witness ==
    /\ Len(calls) = 1
    /\ isLoading
    /\ ev.kind = "readResolved"

\* C2: counting file reads and remote calls together, no reachable state of
\* the rendered view has two asynchronous operations pending.
C2_SingleOutstandingOperation == Len(reads) + Len(calls) <= 1

\* C3: an upload of a file whose type does not start with "image/" sets error
\* to the invalid-file message, starts no read and leaves originalImage,
\* editedImage, prompt and isLoading unchanged.
C3_InvalidUploadOnlySetsError ==
    [][ (UploadOfFile' /\ ~startsWith(ev'.file.type, ImageSlash))
        => /\ error' = Some("Please upload a valid image file (PNG, JPG, WEBP, etc.).")
           /\ reads' = reads
           /\ readsStarted' = readsStarted
           /\ UNCHANGED <<originalImage, editedImage, prompt, isLoading>> ]_vars
\* The type "image" (no slash) has just been refused while a read is pending.
C3_Witness ==
    /\ ev.kind = "uploadInvalid"
    /\ ev.file.type = TypeBare
    /\ error = Some(InvalidFileMsg)
    /\ originalImage = null
    /\ Len(reads) = 1

\* C4: handleSubmit with an empty prompt or without an original image sets
\* error to the missing-input message, issues no remote call and leaves
\* originalImage, editedImage, prompt and isLoading unchanged.
C4_SubmitWithoutInputOnlySetsError ==
    [][ (ev'.kind \in {"submitRefused", "submitAccepted"}
         /\ (prompt = "" \/ originalImage = null))
        => /\ error' = Some("Please provide an image and a prompt.")
           /\ calls' = calls
           /\ callsIssued' = callsIssued
           /\ UNCHANGED <<originalImage, editedImage, prompt, isLoading>> ]_vars
\* A submit with an image and an empty prompt has just been refused.
C4_Witness ==
    /\ ev.kind = "submitRefused"
    /\ originalImage # null
    /\ prompt = ""
    /\ error = Some(MissingInputMsg)

\* C5: right after an invalid file type, a rejected file read or a rejected
\* remote call (whatever was thrown), error holds a value the view renders:
\* a non-null, non-empty string.
C5_FailuresAreRendered ==
    ev.kind \in {"uploadInvalid", "readRejected", "editRejected"} => ErrorRendered

\* C6: nothing is retried: the calls issued equal the submits accepted, the
\* reads started equal the valid-image uploads, and a rejected read or call
\* starts no asynchronous operation.
C6_NothingRetried ==
    /\ [](callsIssued = submitsAccepted /\ readsStarted = validUploads)
    /\ [][ ev'.kind \in {"readRejected", "editRejected"}
           => /\ Len(reads') <= Len(reads)
              /\ Len(calls') <= Len(calls)
              /\ Len(reads') + Len(calls') = Len(reads) + Len(calls) - 1
              /\ callsIssued' = callsIssued
              /\ readsStarted' = readsStarted ]_vars
\* A call has been rejected after two submits; nothing is pending.
C6_Witness ==
    /\ ev.kind = "editRejected"
    /\ callsIssued = 2
    /\ submitsAccepted = 2
    /\ calls = <<>>
    /\ reads = <<>>

\* C7: provided the remote call settles, isLoading set by an accepted submit
\* becomes false again; it turns false only in the step that settles the
\* call, and that step always turns it false.
C7_UnlockedBySettlementOnly ==
    /\ [][ (isLoading /\ ~isLoading') => EditSettled' ]_vars
    /\ [][ EditSettled' => ~isLoading' ]_vars
    /\ (isLoading ~> ~isLoading)
\* A call has resolved and unlocked the view while a file read is pending.
C7_Witness ==
    /\ ev.kind = "editResolved"
    /\ ~isLoading
    /\ Len(reads) > 0

\* C8: right after the call of an accepted submit resolves with r, editedImage
\* is "data:image/png;base64," followed by r, isLoading is false and prompt is
\* the prompt that was submitted.
C8_ResolvedEdit ==
    ev.kind = "editResolved"
    => /\ editedImage = Some("data:image/png;base64," \o ev.result)
       /\ ~isLoading
       /\ prompt = ev.call.prompt
\* The edit of a JPEG original has resolved.
C8_Witness ==
    /\ ev.kind = "editResolved"
    /\ ev.call.mimeType = TypeJpeg
    /\ ev.call.prompt = "blur"
    /\ editedImage = Some("data:image/png;base64,QUJD")

\* C9: right after the call of an accepted submit rejects, isLoading is false,
\* editedImage is null, prompt is the prompt that was submitted and error is
\* the Error's message, or the unknown-error message for a non-Error.
C9_RejectedEdit ==
    ev.kind = "editRejected"
    => /\ ~isLoading
       /\ editedImage = null
       /\ prompt = ev.call.prompt
       /\ error = Some(IF ev.thrown.isError
                       THEN ev.thrown.message
                       ELSE "An unknown error occurred.")
\* A second edit has been rejected with a value that is no Error.
C9_Witness ==
    /\ ev.kind = "editRejected"
    /\ ~ev.thrown.isError
    /\ error = Some(UnknownErrorMsg)
    /\ submitsAccepted = 2

\* C10: a valid image upload clears error and editedImage at once and starts
\* the read; the read resolving sets originalImage to what fileToBase64 gives
\* for the file; the read rejecting sets error to the read-failure message
\* and leaves originalImage unchanged; none of the three changes prompt or
\* isLoading.
C10_ValidUploadEffects ==
    [][ /\ (UploadOfFile' /\ startsWith(ev'.file.type, ImageSlash))
           => /\ error' = null
              /\ editedImage' = null
              /\ reads' = Append(reads, ev'.file)
              /\ UNCHANGED <<originalImage, prompt, isLoading>>
        /\ ev'.kind = "readResolved"
           => /\ originalImage' = Some([data |-> ev'.file.b64,
                                        mimeType |-> ev'.file.type])
              /\ UNCHANGED <<prompt, isLoading>>
        /\ ev'.kind = "readRejected"
           => /\ error' = Some("Failed to process image file.")
              /\ UNCHANGED <<originalImage, prompt, isLoading>> ]_vars
\* A read has been rejected after another one had set the original image.
C10_Witness ==
    /\ ev.kind = "readRejected"
    /\ error = Some(ReadFailedMsg)
    /\ originalImage # null
    /\ prompt # ""

ReadSettled == ev.kind \in {"readResolved", "readRejected"}

\* C11: under the rendered view Reset acts only with an original image and no
\* request pending, and right after handleReset originalImage, editedImage
\* and error are null, prompt is empty and isLoading is false.
C11_ResetRestoresInitialState ==
    [][ ev'.kind = "reset"
        => /\ originalImage # null
           /\ ~isLoading
           /\ calls = <<>>
           /\ originalImage' = null
           /\ editedImage' = null
           /\ prompt' = ""
           /\ error' = null
           /\ isLoading' = FALSE ]_vars
\* Reset has been clicked after an edit had been requested.
C11_Witness ==
    /\ ev.kind = "reset"
    /\ submitsAccepted >= 1
    /\ originalImage = null
    /\ editedImage = null
    /\ prompt = ""
    /\ error = null
    /\ ~isLoading

\* C12: in every reachable state of the rendered view, isLoading implies
\* editedImage null, originalImage non-null and prompt non-empty.
C12_LoadingState ==
    isLoading => /\ editedImage = null
                 /\ originalImage # null
                 /\ prompt # ""
\* A file read has been rejected while the remote call is pending.
C12_Witness ==
    /\ isLoading
    /\ ev.kind = "readRejected"
    /\ prompt = "retro"

\* C13: in every reachable state of the rendered view, editedImage non-null
\* implies originalImage non-null.
C13_EditedImpliesOriginal == editedImage # null => originalImage # null
\* An edit is displayed and a late file read has just replaced the original.
C13_Witness ==
    /\ editedImage # null
    /\ originalImage # null
    /\ ev.kind = "readResolved"

\* C14: while isLoading is true the file input is not rendered, the prompt
\* input, Generate and Reset are disabled, and every step that changes the
\* state is the completion of a file read or of the remote call.
C14_NoUserActionWhileLoading ==
    /\ [](isLoading => /\ ~FileInputRendered
                       /\ PromptDisabled
                       /\ GenerateDisabled
                       /\ ResetDisabled)
    /\ [][ isLoading => (ReadSettled' \/ EditSettled') ]_vars
\* The remote call is pending together with two file reads.
C14_Witness ==
    /\ isLoading
    /\ Len(reads) = 2

\* C15: whenever an edited image is displayed, it is the result of a request
\* made with the original image currently held.  Stated for the state right
\* after a call resolves, where the edit displayed is the result of ev.call:
\* the original held is the image that call was made with.
C15_EditShownWithItsOriginal ==
    (ev.kind = "editResolved" /\ editedImage # null)
    => originalImage = Some([data |-> ev.call.data,
                             mimeType |-> ev.call.mimeType])

\* C16: when several valid files are selected before any read has completed,
\* the original image held once all reads have completed is that of the file
\* selected last.  Stated for two files: the read started last of the only
\* two reads of the run has resolved first (ev.index = 2 of two pending),
\* and the step that resolves the other one must leave the original of the
\* file selected last.
C16_LastSelectedFileWins ==
    [][ (/\ ev.kind = "readResolved"
         /\ ev.index = 2
         /\ readsStarted = 2
         /\ Len(reads) = 1
         /\ ev'.kind = "readResolved")
        => originalImage' = Some([data |-> fileToBase64(ev.file).base64Data,
                                  mimeType |-> fileToBase64(ev.file).mimeType]) ]_vars

\* C17: after Reset, originalImage and error stay null until a new upload.
\* Stated for the step that follows a reset: it is an upload event, or it
\* leaves originalImage and error null.
C17_NothingAfterResetButUploads ==
    [][ ev.kind = "reset"
        => \/ ev'.kind \in {"uploadNone", "uploadInvalid", "uploadValid"}
           \/ (originalImage' = null /\ error' = null) ]_vars

====
